---- MODULE Spec2Model ----
(***************************************************************************)
(* Model of the deck-list parser and card resolver of the mtg plugin       *)
(* (plugins/mtg/parser.go).                                                *)
(*                                                                         *)
(* Strings are sequences of one-character strings, so that the regular     *)
(* expressions, TrimSpace, HasPrefix and Replace are computed on the text  *)
(* as the code computes them.                                              *)
(***************************************************************************)
EXTENDS Integers, Sequences, FiniteSets, TLC

\* ------------------------------------------------------------------ bounds
\* Number of lines the scanner delivers in one parse.
MaxLines == 4

\* Width of Go's int, scaled down so that out-of-range counts fit a line.
IntBits == 8

\* Number of InsertCount calls in the specification of CardNames alone.
MaxInserts == 3

\* Number of card lines filed in the parse whose result is resolved.
MaxRefs == 2

\* Number of entries below the target directory when the walk starts.
MaxEntries == 3

\* ------------------------------------------------------- integers, strings
MaxInt == 2 ^ (IntBits - 1) - 1

\* Go's int addition wraps silently (two's complement).
IntAdd(a, b) ==
    LET m == 2 ^ IntBits
        s == (a + b) % m
    IN  IF s > MaxInt THEN s - m ELSE s

SpaceChars == {" ", "\t"}

DigitChars == <<"0", "1", "2", "3", "4", "5", "6", "7", "8", "9">>

Digits == {DigitChars[i] : i \in 1..10}

UpperChars ==
    {"A", "B", "C", "D", "E", "F", "G", "H", "I", "J", "K", "L", "M",
     "N", "O", "P", "Q", "R", "S", "T", "U", "V", "W", "X", "Y", "Z"}

\* The class [A-Z0-9_] of the Set capture.
SetChars == UpperChars \cup Digits \cup {"_"}

\* Position after the longest run of characters of class S starting at i.
RunEnd(L, i, S) ==
    CHOOSE j \in i..(Len(L) + 1) :
        /\ \A k \in i..(j - 1) : L[k] \in S
        /\ (j = Len(L) + 1 \/ L[j] \notin S)

CharAt(L, i) == IF i \in 1..Len(L) THEN L[i] ELSE "<eol>"

Max(S) == CHOOSE x \in S : \A y \in S : y <= x

HasPrefix(L, p) == Len(L) >= Len(p) /\ SubSeq(L, 1, Len(p)) = p

\* Index of the first occurrence of sub in L, 0 when there is none.
IndexOfSub(L, sub) ==
    LET hits == {i \in 1..(Len(L) - Len(sub) + 1) :
                    SubSeq(L, i, i + Len(sub) - 1) = sub}
    IN  IF hits = {} THEN 0 ELSE CHOOSE i \in hits : \A j \in hits : i <= j

Contains(L, sub) == IndexOfSub(L, sub) # 0

\* strings.Replace(L, old, new, 1): only the first occurrence is replaced.
ReplaceFirst(L, old, new) ==
    LET i == IndexOfSub(L, old)
    IN  IF i = 0 THEN L
        ELSE SubSeq(L, 1, i - 1) \o new \o SubSeq(L, i + Len(old), Len(L))

TrimSpace(L) ==
    LET keep == {i \in 1..Len(L) : L[i] \notin SpaceChars}
    IN  IF keep = {} THEN <<>>
        ELSE SubSeq(L, CHOOSE i \in keep : \A j \in keep : i <= j, Max(keep))

\* strconv.Atoi on a run of decimal digits: the value, or a range error.
RECURSIVE DigitsValue(_, _)
DigitsValue(d, acc) ==
    IF d = <<>> \/ acc > MaxInt THEN acc
    ELSE DigitsValue(Tail(d),
                     10 * acc + (CHOOSE k \in 0..9 : DigitChars[k + 1] = Head(d)))

Atoi(d) ==
    LET v == DigitsValue(d, 0)
    IN  IF v > MaxInt THEN [err |-> TRUE, val |-> 0]
        ELSE [err |-> FALSE, val |-> v]

\* ------------------------------------------------------ cardLineRegexps
\* A match carries the named groups of the expression; a group that did not
\* take part in the match is the empty string, a group the expression does
\* not have is flagged by hasSideboard / hasSet (IndexOf(...) == -1).
NoMatch ==
    [ok |-> FALSE, hasSideboard |-> FALSE, hasSet |-> FALSE,
     Sideboard |-> <<>>, Count |-> <<>>, Set |-> <<>>, Name |-> <<>>]

SBPrefix == <<"S", "B", ":">>

\* ^\s*(\d+)\s+(.+)\s+\(([A-Z0-9_]+)\)(\s+([\d]+[ab]*))?$
\* s: start of Name, e: end of Name (exclusive), o: the opening parenthesis.
\* Greedy \s+ and .+ : the match is the lexicographically largest (s, e).
\* (variant: the set code has two characters or more)
ArenaMatchTwoCharSet(L) ==
    LET n  == Len(L)
        p2 == RunEnd(L, 1, SpaceChars)
        p3 == RunEnd(L, p2, Digits)
        p4 == RunEnd(L, p3, SpaceChars)
        TailOK(c) ==
            \/ c = n
            \/ LET t  == RunEnd(L, c + 1, SpaceChars)
                   d  == RunEnd(L, t, Digits)
                   ab == RunEnd(L, d, {"a", "b"})
               IN  t > c + 1 /\ d > t /\ ab = n + 1
        SetEnd(o) == RunEnd(L, o + 1, SetChars)
        cands ==
            {c \in ((p3 + 1)..p4) \X ((p3 + 2)..n) \X {o \in 1..n : L[o] = "("} :
                /\ c[1] < c[2]
                /\ c[2] < c[3]
                /\ \A k \in c[2]..(c[3] - 1) : L[k] \in SpaceChars
                /\ SetEnd(c[3]) > c[3] + 2
                /\ CharAt(L, SetEnd(c[3])) = ")"
                /\ TailOK(SetEnd(c[3]))}
        best ==
            CHOOSE c \in cands : \A d \in cands :
                d[1] < c[1] \/ (d[1] = c[1] /\ d[2] <= c[2])
    IN  IF p3 = p2 \/ p4 = p3 \/ cands = {} THEN NoMatch
        ELSE [ok |-> TRUE, hasSideboard |-> FALSE, hasSet |-> TRUE,
              Sideboard |-> <<>>,
              Count |-> SubSeq(L, p2, p3 - 1),
              Set |-> SubSeq(L, best[3] + 1, SetEnd(best[3]) - 1),
              Name |-> SubSeq(L, best[1], best[2] - 1)]

ArenaMatch(L) ==
    LET n  == Len(L)
        p2 == RunEnd(L, 1, SpaceChars)
        p3 == RunEnd(L, p2, Digits)
        p4 == RunEnd(L, p3, SpaceChars)
        TailOK(c) ==
            \/ c = n
            \/ LET t  == RunEnd(L, c + 1, SpaceChars)
                   d  == RunEnd(L, t, Digits)
                   ab == RunEnd(L, d, {"a", "b"})
               IN  t > c + 1 /\ d > t /\ ab = n + 1
        SetEnd(o) == RunEnd(L, o + 1, SetChars)
        cands ==
            {c \in ((p3 + 1)..p4) \X ((p3 + 2)..n) \X {o \in 1..n : L[o] = "("} :
                /\ c[1] < c[2]
                /\ c[2] < c[3]
                /\ \A k \in c[2]..(c[3] - 1) : L[k] \in SpaceChars
                /\ SetEnd(c[3]) > c[3] + 1
                /\ CharAt(L, SetEnd(c[3])) = ")"
                /\ TailOK(SetEnd(c[3]))}
        best ==
            CHOOSE c \in cands : \A d \in cands :
                d[1] < c[1] \/ (d[1] = c[1] /\ d[2] <= c[2])
    IN  IF p3 = p2 \/ p4 = p3 \/ cands = {} THEN NoMatch
        ELSE [ok |-> TRUE, hasSideboard |-> FALSE, hasSet |-> TRUE,
              Sideboard |-> <<>>,
              Count |-> SubSeq(L, p2, p3 - 1),
              Set |-> SubSeq(L, best[3] + 1, SetEnd(best[3]) - 1),
              Name |-> SubSeq(L, best[1], best[2] - 1)]

\* ^(SB:)?\s*(\d+)\s+\[([A-Z0-9_]+)\]\s+(.+)$
WorkstationMatch(L) ==
    LET n  == Len(L)
        sb == HasPrefix(L, SBPrefix)
        p1 == IF sb THEN 4 ELSE 1
        p2 == RunEnd(L, p1, SpaceChars)
        p3 == RunEnd(L, p2, Digits)
        p4 == RunEnd(L, p3, SpaceChars)
        p5 == RunEnd(L, p4 + 1, SetChars)
        p6 == RunEnd(L, p5 + 1, SpaceChars)
        \* greedy \s+ gives back one character when it ran to the end of line
        s  == IF p6 <= n THEN p6 ELSE n
    IN  IF \/ p3 = p2
           \/ p4 = p3
           \/ CharAt(L, p4) # "["
           \/ p5 = p4 + 1
           \/ CharAt(L, p5) # "]"
           \/ s < p5 + 2
        THEN NoMatch
        ELSE [ok |-> TRUE, hasSideboard |-> TRUE, hasSet |-> TRUE,
              Sideboard |-> IF sb THEN SBPrefix ELSE <<>>,
              Count |-> SubSeq(L, p2, p3 - 1),
              Set |-> SubSeq(L, p4 + 1, p5 - 1),
              Name |-> SubSeq(L, s, n)]

\* ^(SB:)?\s*(\d+)x?\s+([^#]+)(\s+#(.*))?$
\* s: start of Name, e: end of Name (exclusive).
GenericMatch(L) ==
    LET n  == Len(L)
        sb == HasPrefix(L, SBPrefix)
        p1 == IF sb THEN 4 ELSE 1
        p2 == RunEnd(L, p1, SpaceChars)
        p3 == RunEnd(L, p2, Digits)
        px == IF CharAt(L, p3) = "x" THEN p3 + 1 ELSE p3
        p4 == RunEnd(L, px, SpaceChars)
        CommentAt(e) ==
            \E q \in (e + 1)..n :
                /\ L[q] = "#"
                /\ \A k \in e..(q - 1) : L[k] \in SpaceChars
        cands ==
            {c \in ((px + 1)..p4) \X ((px + 2)..(n + 1)) :
                /\ c[1] < c[2]
                /\ \A k \in c[1]..(c[2] - 1) : L[k] # "#"
                /\ (c[2] = n + 1 \/ CommentAt(c[2]))}
        best ==
            CHOOSE c \in cands : \A d \in cands :
                d[1] < c[1] \/ (d[1] = c[1] /\ d[2] <= c[2])
    IN  IF p3 = p2 \/ p4 = px \/ cands = {} THEN NoMatch
        ELSE [ok |-> TRUE, hasSideboard |-> TRUE, hasSet |-> FALSE,
              Sideboard |-> IF sb THEN SBPrefix ELSE <<>>,
              Count |-> SubSeq(L, p2, p3 - 1),
              Set |-> <<>>,
              Name |-> SubSeq(L, best[1], best[2] - 1)]

\* The expressions in the order of the table.
NumRegexps == 3

FindStringSubmatch(i, L) ==
    CASE i = 1 -> ArenaMatch(L)
      [] i = 2 -> WorkstationMatch(L)
      [] OTHER -> GenericMatch(L)

\* ------------------------------------------------------------- CardNames
\* A *CardNames: the nil pointer, or Names (ordered) and Counts (by name).
EmptyCounts == [n \in {} |-> 0]

NilCardNames == [isNil |-> TRUE, Names |-> <<>>, Counts |-> EmptyCounts]

NewCardNames == [isNil |-> FALSE, Names |-> <<>>, Counts |-> EmptyCounts]

\* A nil *string (no set).
NilSet == <<"nil">>

\* (variant: the entry is appended without looking the name up)
InsertCountAppending(c, name, set, count) ==
    [c EXCEPT
        !.Names = Append(@, [Name |-> name, Set |-> set]),
        !.Counts = [n \in DOMAIN c.Counts \cup {name} |->
                        IF n = name
                        THEN IF name \in DOMAIN c.Counts
                             THEN IntAdd(c.Counts[name], count)
                             ELSE count
                        ELSE c.Counts[n]]]

InsertCount(c, name, set, count) ==
    IF name \notin DOMAIN c.Counts
    THEN [c EXCEPT
            !.Names = Append(@, [Name |-> name, Set |-> set]),
            !.Counts = [n \in DOMAIN c.Counts \cup {name} |->
                            IF n = name THEN count ELSE c.Counts[n]]]
    ELSE [c EXCEPT !.Counts[name] = IntAdd(c.Counts[name], count)]

\* main.Names = append(main.Names, side.Names...) and the loop over
\* side.Counts of both reconciliation merges.
\* (variant: the counts are summed but the names are not appended)
SumWithoutAppend(m, s) ==
    [m EXCEPT
        !.Counts = [n \in DOMAIN m.Counts \cup DOMAIN s.Counts |->
                        IF n \in DOMAIN s.Counts
                        THEN IF n \in DOMAIN m.Counts
                             THEN IntAdd(m.Counts[n], s.Counts[n])
                             ELSE s.Counts[n]
                        ELSE m.Counts[n]]]

\* (variant: the count of the sideboard replaces the count of main)
AppendAndOverwrite(m, s) ==
    [m EXCEPT
        !.Names = m.Names \o s.Names,
        !.Counts = [n \in DOMAIN m.Counts \cup DOMAIN s.Counts |->
                        IF n \in DOMAIN s.Counts
                        THEN s.Counts[n]
                        ELSE m.Counts[n]]]

AppendAndSum(m, s) ==
    [m EXCEPT
        !.Names = m.Names \o s.Names,
        !.Counts = [n \in DOMAIN m.Counts \cup DOMAIN s.Counts |->
                        IF n \in DOMAIN s.Counts
                        THEN IF n \in DOMAIN m.Counts
                             THEN IntAdd(m.Counts[n], s.Counts[n])
                             ELSE s.Counts[n]
                        ELSE m.Counts[n]]]

\* ------------------------------------------------------------ the input
\* The lines a deck file is made of in this model.
Lines ==
    { <<>>,
      <<"S", "i", "d", "e", "b", "o", "a", "r", "d">>,
      <<"M", "a", "y", "b", "e", "b", "o", "a", "r", "d">>,
      <<"/", "/", " ", "c">>,
      <<"I", "s", "l", "e">>,
      <<"1", " ", "A">>,
      <<"2", "x", " ", "B", " ", "#", "c">>,
      <<"0", " ", "B">>,
      <<"S", "B", ":", " ", "1", " ", "A">>,
      <<"S", "B", ":", " ", "2", " ", "[", "M", "2", "0", "]", " ", "C">>,
      <<"S", "B", ":", " ", "9", "9", "9", " ", "B">>,
      <<"1", " ", "[", "0", "0", "0", "]", " ", "A", "/", "/", "/", "B">>,
      <<"3", " ", "C", " ", "(", "M", "2", "0", ")", " ", "7">>,
      <<"1", " ", "C", " ", "(", "X", ")">>,
      <<"1", " ", "A", "/", "/", "/", "B", "/", "/", "/", "C">> }

\* The submatches of every line under every expression.
LineMatches == [L \in Lines |-> [i \in 1..NumRegexps |-> FindStringSubmatch(i, L)]]

\* ------------------------------------------------------------- the state
VARIABLES
    main, side, maybe,   \* the three *CardNames of parseDeckFile / fromDeckFile
    step,                \* current DeckType
    sbLineFound,         \* a line with the SB: prefix was seen
    emptyLineCount,      \* empty lines seen once main held a card
    line,                \* scanner.Text() of the line processed last
    nread,               \* number of lines the scanner has delivered
    pc,                  \* position in parseDeckFile
    err,                 \* the error parseDeckFile returns
    options,             \* the validated options of fromDeckFile
    zone,                \* position in fromDeckFile: the zone being resolved
    idx,                 \* position in the loop of cardNamesToDeck (0: not entered)
    deck,                \* the deck cardNamesToDeck is building
    decks,               \* the decks fromDeckFile has collected
    ret,                 \* what fromDeckFile returned
    lookups,             \* the calls made to the card-data service, in order
    resp,                \* the answers of the service in the last iteration
    cn,                  \* a CardNames of its own, for InsertCount alone
    call,                \* the last InsertCount on cn: its number, its arguments,
                         \* and whether the name was found
    tree,                \* the target directory, as filepath.Walk would visit it
    outputInTarget,      \* outputFolder is the target directory
    wi,                  \* position of filepath.Walk in tree (0: the target itself)
    files,               \* the files collected by the WalkFunc of main
    handled,             \* the files handleTarget was called for, in order
    made,                \* the files generated into the target directory
    cpc                  \* position in main

parserVars == <<main, side, maybe, step, sbLineFound, emptyLineCount, line, nread, pc, err>>

resolverVars == <<options, zone, idx, deck, decks, ret, lookups, resp>>

insertVars == <<cn, call>>

walkVars == <<tree, outputInTarget, wi, files, handled, made, cpc>>

vars == <<parserVars, resolverVars, insertVars, walkVars>>

Steps == {"Main", "Sideboard", "Maybeboard"}

\* The values of the variables an operation that has not started leaves.
NoDeck == [Name |-> "", Cards |-> <<>>]

NoRet == [returned |-> FALSE, decks |-> <<>>, err |-> "nil"]

NoResp == [primary |-> "none", rulings |-> "none", meld |-> "none"]

NoCall == [n |-> 0, Name |-> <<>>, Set |-> <<"nil">>, Count |-> 0, found |-> FALSE]

ResolverIdle ==
    /\ options = [show_rulings |-> FALSE, quality |-> "normal"]
    /\ zone = "idle"
    /\ idx = 0
    /\ deck = NoDeck
    /\ decks = <<>>
    /\ ret = NoRet
    /\ lookups = <<>>
    /\ resp = NoResp

InsertIdle ==
    /\ cn = [isNil |-> TRUE, Names |-> <<>>, Counts |-> [n \in {} |-> 0]]
    /\ call = NoCall

WalkIdle ==
    /\ tree = <<>>
    /\ outputInTarget = FALSE
    /\ wi = 0
    /\ files = <<>>
    /\ handled = <<>>
    /\ made = <<>>
    /\ cpc = "idle"

ParserIdle ==
    /\ step = "Main"
    /\ sbLineFound = FALSE
    /\ emptyLineCount = 0
    /\ line = <<>>
    /\ nread = 0
    /\ pc = "done"
    /\ err = "nil"

\* ------------------------------------------------------- parseDeckLine
\* The variables parseDeckLine takes and returns; panic is a nil pointer
\* dereference, which ends the process.
ParseState ==
    [main |-> main, side |-> side, maybe |-> maybe, step |-> step,
     sbLineFound |-> sbLineFound, emptyLineCount |-> emptyLineCount,
     panic |-> FALSE]

\* Lines 412-434: the first SB: line switches to the sideboard and moves a
\* sideboard that already holds cards into main.
\* (variant: sbLineFound is not tested, every SB: line switches and merges)
SwitchOnEverySB(st, m) ==
    IF m.hasSideboard /\ Len(m.Sideboard) > 0
    THEN IF ~st.side.isNil /\ Len(st.side.Names) > 0
         THEN IF st.main.isNil
              THEN [st EXCEPT !.step = "Sideboard", !.panic = TRUE]
              ELSE [st EXCEPT !.step = "Sideboard",
                              !.main = AppendAndSum(st.main, st.side),
                              !.side = NilCardNames,
                              !.sbLineFound = TRUE]
         ELSE [st EXCEPT !.step = "Sideboard", !.sbLineFound = TRUE]
    ELSE st

SwitchOnSB(st, m) ==
    IF m.hasSideboard /\ Len(m.Sideboard) > 0 /\ ~st.sbLineFound
    THEN IF ~st.side.isNil /\ Len(st.side.Names) > 0
         THEN IF st.main.isNil
              THEN [st EXCEPT !.step = "Sideboard", !.panic = TRUE]
              ELSE [st EXCEPT !.step = "Sideboard",
                              !.main = AppendAndSum(st.main, st.side),
                              !.side = NilCardNames,
                              !.sbLineFound = TRUE]
         ELSE [st EXCEPT !.step = "Sideboard", !.sbLineFound = TRUE]
    ELSE st

\* Lines 435-446.
\* (variant: the placeholder 000 is kept as a set code)
SetOfAsCaptured(m) ==
    IF m.hasSet /\ Len(m.Set) > 0
    THEN m.Set
    ELSE NilSet

SetOf(m) ==
    IF m.hasSet /\ Len(m.Set) > 0
    THEN IF m.Set = <<"0", "0", "0">> THEN NilSet ELSE m.Set
    ELSE NilSet

\* Lines 453-459.
NameOf(m) ==
    LET name == TrimSpace(m.Name)
    IN  IF Contains(name, <<"/", "/", "/">>)
        THEN ReplaceFirst(name, <<"/", "/", "/">>, <<"/", "/">>)
        ELSE name

\* Lines 471-491.
FileCard(st, name, set, count) ==
    CASE st.step = "Main" ->
            [st EXCEPT !.main =
                InsertCount(IF @.isNil THEN NewCardNames ELSE @, name, set, count)]
      [] st.step = "Sideboard" ->
            [st EXCEPT !.side =
                InsertCount(IF @.isNil THEN NewCardNames ELSE @, name, set, count)]
      [] st.step = "Maybeboard" ->
            [st EXCEPT !.maybe =
                InsertCount(IF @.isNil THEN NewCardNames ELSE @, name, set, count)]
      [] OTHER -> st

\* The loop over cardLineRegexps, from expression i on.
RECURSIVE TryRegexps(_, _, _)
TryRegexps(i, L, st) ==
    IF i > NumRegexps THEN st
    ELSE LET m == LineMatches[L][i]
         IN  IF ~m.ok THEN TryRegexps(i + 1, L, st)
             ELSE LET st1   == SwitchOnSB(st, m)
                      count == Atoi(m.Count)
                  IN  IF st1.panic THEN st1
                      ELSE IF count.err THEN TryRegexps(i + 1, L, st1)
                      ELSE FileCard(st1, NameOf(m), SetOf(m), count.val)

\* (variant: the Generic expression alone is tried)
parseDeckLineGenericOnly(L, st) == TryRegexps(NumRegexps, L, st)

parseDeckLine(L, st) == TryRegexps(1, L, st)

\* ------------------------------------------------------- parseDeckFile
Init ==
    /\ main = NilCardNames
    /\ side = NilCardNames
    /\ maybe = NilCardNames
    /\ step = "Main"
    /\ sbLineFound = FALSE
    /\ emptyLineCount = 0
    /\ line = <<>>
    /\ nread = 0
    /\ pc = "scan"
    /\ err = "nil"
    /\ ResolverIdle
    /\ InsertIdle
    /\ WalkIdle

Scanning(L) ==
    /\ pc = "scan"
    /\ nread < MaxLines
    /\ line' = L
    /\ nread' = nread + 1
    /\ err' = err
    /\ UNCHANGED <<resolverVars, insertVars, walkVars>>

\* Lines 513-525.
\* (variant: the empty line counts whether or not main holds a card)
EmptyLineAlwaysCounted ==
    /\ Scanning(<<>>)
    /\ step' = (IF step = "Main" THEN "Sideboard" ELSE step)
    /\ emptyLineCount' = emptyLineCount + 1
    /\ UNCHANGED <<main, side, maybe, sbLineFound, pc>>

\* (variant: the empty line switches to the sideboard from any zone)
EmptyLineFromAnyZone ==
    /\ Scanning(<<>>)
    /\ IF ~main.isNil /\ Len(main.Names) > 0
       THEN /\ step' = "Sideboard"
            /\ emptyLineCount' = emptyLineCount + 1
       ELSE UNCHANGED <<step, emptyLineCount>>
    /\ UNCHANGED <<main, side, maybe, sbLineFound, pc>>

EmptyLine ==
    /\ Scanning(<<>>)
    /\ IF ~main.isNil /\ Len(main.Names) > 0
       THEN /\ step' = (IF step = "Main" THEN "Sideboard" ELSE step)
            /\ emptyLineCount' = emptyLineCount + 1
       ELSE UNCHANGED <<step, emptyLineCount>>
    /\ UNCHANGED <<main, side, maybe, sbLineFound, pc>>

\* Lines 527-533.
\* (variant: the header switches to the sideboard from any zone)
SideboardLineFromAnyZone ==
    \E L \in Lines :
        /\ Len(L) # 0
        /\ HasPrefix(L, <<"S", "i", "d", "e", "b", "o", "a", "r", "d">>)
        /\ Scanning(L)
        /\ step' = "Sideboard"
        /\ UNCHANGED <<main, side, maybe, sbLineFound, emptyLineCount, pc>>

SideboardLine ==
    \E L \in Lines :
        /\ Len(L) # 0
        /\ HasPrefix(L, <<"S", "i", "d", "e", "b", "o", "a", "r", "d">>)
        /\ Scanning(L)
        /\ step' = (IF step = "Main" THEN "Sideboard" ELSE step)
        /\ UNCHANGED <<main, side, maybe, sbLineFound, emptyLineCount, pc>>

\* Lines 535-539.
MaybeboardLine ==
    \E L \in Lines :
        /\ Len(L) # 0
        /\ ~HasPrefix(L, <<"S", "i", "d", "e", "b", "o", "a", "r", "d">>)
        /\ HasPrefix(L, <<"M", "a", "y", "b", "e", "b", "o", "a", "r", "d">>)
        /\ Scanning(L)
        /\ step' = "Maybeboard"
        /\ UNCHANGED <<main, side, maybe, sbLineFound, emptyLineCount, pc>>

\* Lines 541-544.
CommentLine ==
    \E L \in Lines :
        /\ Len(L) # 0
        /\ ~HasPrefix(L, <<"S", "i", "d", "e", "b", "o", "a", "r", "d">>)
        /\ ~HasPrefix(L, <<"M", "a", "y", "b", "e", "b", "o", "a", "r", "d">>)
        /\ HasPrefix(L, <<"/", "/">>)
        /\ Scanning(L)
        /\ UNCHANGED <<main, side, maybe, step, sbLineFound, emptyLineCount, pc>>

\* Lines 546-554.
CardLine ==
    \E L \in Lines :
        /\ Len(L) # 0
        /\ ~HasPrefix(L, <<"S", "i", "d", "e", "b", "o", "a", "r", "d">>)
        /\ ~HasPrefix(L, <<"M", "a", "y", "b", "e", "b", "o", "a", "r", "d">>)
        /\ ~HasPrefix(L, <<"/", "/">>)
        /\ Scanning(L)
        /\ LET st == parseDeckLine(L, ParseState)
           IN  /\ main' = st.main
               /\ side' = st.side
               /\ maybe' = st.maybe
               /\ step' = st.step
               /\ sbLineFound' = st.sbLineFound
               /\ emptyLineCount' = st.emptyLineCount
               /\ pc' = (IF st.panic THEN "panic" ELSE pc)

\* Line 557: several empty lines and no line starting with SB: means that
\* there was no sideboard.
NoSideboardAfterAllLoose(s, found, n) == ~s.isNil /\ ~found /\ n > 0

NoSideboardAfterAll(s, found, n) == ~s.isNil /\ ~found /\ n > 1

\* Lines 557-593: the scan loop has ended, with scanner.Err() = e.
AfterScan(e) ==
    /\ pc = "scan"
    /\ IF NoSideboardAfterAll(side, sbLineFound, emptyLineCount)
       THEN IF main.isNil
            THEN /\ pc' = "panic"
                 /\ UNCHANGED <<main, side, err>>
            ELSE /\ main' = AppendAndSum(main, side)
                 /\ side' = NilCardNames
                 /\ pc' = "done"
                 /\ err' = e
       ELSE /\ pc' = "done"
            /\ err' = e
            /\ UNCHANGED <<main, side>>
    /\ UNCHANGED <<maybe, step, sbLineFound, emptyLineCount, line, nread>>
    /\ UNCHANGED <<resolverVars, insertVars, walkVars>>

EndOfInput == AfterScan("nil")

ScanError == AfterScan("io")

Next ==
    \/ EmptyLine
    \/ SideboardLine
    \/ MaybeboardLine
    \/ CommentLine
    \/ CardLine
    \/ EndOfInput
    \/ ScanError

Spec == Init /\ [][Next]_vars

\* ------------------------------------------------------------ getImageURL
Qualities == {"small", "normal", "large", "png"}

\* An image URL of the service is named by whose image it is and by its tier.
ImageURIs(who) ==
    [Small |-> <<who, "small">>, Normal |-> <<who, "normal">>,
     Large |-> <<who, "large">>, PNG |-> <<who, "png">>]

\* Lines 118-147.
\* (variant: large and png are served without looking at highResAvailable)
getImageURLAsAsked(uris, highResAvailable, imageQuality) ==
    CASE imageQuality = "small" -> uris.Small
      [] imageQuality = "normal" -> uris.Normal
      [] imageQuality = "large" -> uris.Large
      [] imageQuality = "png" -> uris.PNG
      [] OTHER -> <<>>

getImageURL(uris, highResAvailable, imageQuality) ==
    CASE imageQuality = "small" -> uris.Small
      [] imageQuality = "normal" -> uris.Normal
      [] imageQuality = "large" ->
            IF highResAvailable THEN uris.Large ELSE uris.Normal
      [] imageQuality = "png" ->
            IF highResAvailable THEN uris.PNG ELSE uris.Normal
      [] OTHER -> <<>>

\* ------------------------------------------------- the card-data service
\* What GetCardByName can answer: an error, or a card of one of these shapes.
LookupError ==
    [ok |-> FALSE, Layout |-> "", NumFaces |-> 0, HasImageURIs |-> FALSE,
     AllParts |-> <<>>, HighresImage |-> FALSE, Oversized |-> FALSE]

Card(layout, faces, img, parts, highres, oversized) ==
    [ok |-> TRUE, Layout |-> layout, NumFaces |-> faces, HasImageURIs |-> img,
     AllParts |-> parts, HighresImage |-> highres, Oversized |-> oversized]

CardShapes ==
    { Card("normal", 0, TRUE, <<>>, TRUE, FALSE),
      Card("normal", 0, TRUE, <<>>, FALSE, TRUE),
      Card("normal", 0, FALSE, <<>>, FALSE, FALSE),
      Card("normal", 1, TRUE, <<>>, TRUE, FALSE),
      Card("split", 2, TRUE, <<>>, FALSE, FALSE),
      Card("flip", 2, FALSE, <<>>, TRUE, FALSE),
      Card("transform", 2, FALSE, <<>>, TRUE, FALSE),
      Card("meld", 0, TRUE, <<>>, TRUE, FALSE),
      Card("meld", 0, TRUE, <<"meld_part", "meld_part">>, TRUE, FALSE),
      Card("meld", 0, TRUE, <<"meld_part", "meld_result">>, TRUE, FALSE),
      Card("meld", 0, FALSE, <<"meld_part", "meld_result">>, FALSE, FALSE) }

\* What GetCard can answer for a meld result: "err", or a card without
\* images, with images, or with high-resolution images.
MeldAnswers == {"err", "noimages", "lowres", "highres"}

\* The names the service gives to a meld result and to the faces of a card.
MeldResultName(name) == name \o <<"^">>

FaceName(name, k) == name \o <<"~", DigitChars[k + 1]>>

NoCard ==
    [Name |-> <<>>, Description |-> "", ImageURL |-> <<>>, Count |-> 0,
     Oversized |-> FALSE, AlternativeState |-> <<>>]

\* The first part of AllParts that is the meld result (lines 212-218).
HasMeldResult(card) ==
    \E k \in 1..Len(card.AllParts) : card.AllParts[k] = "meld_result"

\* Lines 208-211, 219-222, 229-236: the meld card is logged and passed over
\* (continue).
\* (variant: the failure ends the loop like a failure of GetCardByName)
OnMeldFailureAbort == [kind |-> "error", card |-> NoCard, err |-> "lookup"]

OnMeldFailure == [kind |-> "skip", card |-> NoCard, err |-> "nil"]

\* Lines 205-252: the meld branch, given the answer m of GetCard.
MeldBranch(cardInfo, count, card, m, quality) ==
    IF Len(card.AllParts) = 0 THEN OnMeldFailure
    ELSE IF ~HasMeldResult(card) THEN OnMeldFailure
    ELSE IF m = "err" THEN OnMeldFailure
    ELSE IF ~card.HasImageURIs \/ m = "noimages"
         THEN [kind |-> "panic", card |-> NoCard, err |-> "nil"]
    ELSE [kind |-> "emit", err |-> "nil",
          card |->
            [Name |-> cardInfo.Name,
             Description |-> "card",
             ImageURL |-> getImageURL(ImageURIs(cardInfo.Name), card.HighresImage, quality),
             Count |-> count,
             Oversized |-> FALSE,
             AlternativeState |->
                << [Name |-> MeldResultName(cardInfo.Name),
                    Description |-> "card",
                    ImageURL |-> getImageURL(ImageURIs(MeldResultName(cardInfo.Name)),
                                             m = "highres", quality),
                    Count |-> 0,
                    Oversized |-> TRUE,
                    AlternativeState |-> <<>>] >>]]

\* Lines 253-280: the card with a single face.
\* (variant: a card without image is logged and passed over)
SingleFaceBranchSkipping(cardInfo, count, card, quality) ==
    IF ~card.HasImageURIs
    THEN [kind |-> "skip", card |-> NoCard, err |-> "nil"]
    ELSE [kind |-> "emit", err |-> "nil",
          card |->
            [Name |-> cardInfo.Name,
             Description |-> IF card.NumFaces > 1 THEN "faces" ELSE "card",
             ImageURL |-> getImageURL(ImageURIs(cardInfo.Name), card.HighresImage, quality),
             Count |-> count,
             Oversized |-> card.Oversized,
             AlternativeState |-> <<>>]]

SingleFaceBranch(cardInfo, count, card, quality) ==
    IF ~card.HasImageURIs
    THEN [kind |-> "error", card |-> NoCard, err |-> "no image"]
    ELSE [kind |-> "emit", err |-> "nil",
          card |->
            [Name |-> cardInfo.Name,
             Description |-> IF card.NumFaces > 1 THEN "faces" ELSE "card",
             ImageURL |-> getImageURL(ImageURIs(cardInfo.Name), card.HighresImage, quality),
             Count |-> count,
             Oversized |-> card.Oversized,
             AlternativeState |-> <<>>]]

\* Lines 281-300: the transform branch reads CardFaces[0] and CardFaces[1].
\* (variant: the back face is not attached to the front face)
TransformBranchFrontOnly(cardInfo, count, card, quality) ==
    IF card.NumFaces < 2
    THEN [kind |-> "panic", card |-> NoCard, err |-> "nil"]
    ELSE [kind |-> "emit", err |-> "nil",
          card |->
            [Name |-> FaceName(cardInfo.Name, 0),
             Description |-> "face",
             ImageURL |-> getImageURL(ImageURIs(FaceName(cardInfo.Name, 0)),
                                      card.HighresImage, quality),
             Count |-> count,
             Oversized |-> FALSE,
             AlternativeState |-> <<>>]]

TransformBranch(cardInfo, count, card, quality) ==
    IF card.NumFaces < 2
    THEN [kind |-> "panic", card |-> NoCard, err |-> "nil"]
    ELSE [kind |-> "emit", err |-> "nil",
          card |->
            [Name |-> FaceName(cardInfo.Name, 0),
             Description |-> "face",
             ImageURL |-> getImageURL(ImageURIs(FaceName(cardInfo.Name, 0)),
                                      card.HighresImage, quality),
             Count |-> count,
             Oversized |-> FALSE,
             AlternativeState |->
                << [Name |-> FaceName(cardInfo.Name, 1),
                    Description |-> "face",
                    ImageURL |-> getImageURL(ImageURIs(FaceName(cardInfo.Name, 1)),
                                             card.HighresImage, quality),
                    Count |-> 0,
                    Oversized |-> FALSE,
                    AlternativeState |-> <<>>] >>]]

\* Whether an iteration asks for the rulings, and for the meld result.
AsksRulings(opts, p) == p.ok /\ opts.show_rulings

AsksMeld(p, r) ==
    /\ p.ok
    /\ r # "err"
    /\ p.Layout = "meld"
    /\ HasMeldResult(p)

\* Lines 176-184: GetCardByName failed, cardNamesToDeck returns the error.
\* (variant: the card is logged and passed over)
OnPrimaryFailureSkip == [kind |-> "skip", card |-> NoCard, err |-> "nil"]

OnPrimaryFailure == [kind |-> "error", card |-> NoCard, err |-> "lookup"]

\* Lines 194-202: GetRulings failed, cardNamesToDeck returns the error.
\* (variant: the card is logged and passed over)
OnRulingsFailureSkip == [kind |-> "skip", card |-> NoCard, err |-> "nil"]

OnRulingsFailure == [kind |-> "error", card |-> NoCard, err |-> "rulings"]

\* Lines 166-305: one iteration of the loop of cardNamesToDeck, given the
\* answers of the service: p of GetCardByName, r of GetRulings, m of GetCard.
Iteration(cardInfo, count, opts, p, r, m) ==
    IF ~p.ok THEN OnPrimaryFailure
    ELSE IF AsksRulings(opts, p) /\ r = "err" THEN OnRulingsFailure
    ELSE IF p.Layout = "meld"
         THEN MeldBranch(cardInfo, count, p, m, opts.quality)
    ELSE IF p.NumFaces = 0 \/ p.Layout \in {"flip", "split", "adventure"}
         THEN SingleFaceBranch(cardInfo, count, p, opts.quality)
    ELSE TransformBranch(cardInfo, count, p, opts.quality)

\* The calls an iteration makes, in order.
Calls(cardInfo, opts, p, r) ==
    << [call |-> "GetCardByName", Name |-> cardInfo.Name, Set |-> cardInfo.Set] >>
    \o (IF AsksRulings(opts, p)
        THEN << [call |-> "GetRulings", Name |-> cardInfo.Name, Set |-> cardInfo.Set] >>
        ELSE <<>>)
    \o (IF AsksMeld(p, r)
        THEN << [call |-> "GetCard", Name |-> MeldResultName(cardInfo.Name), Set |-> NilSet] >>
        ELSE <<>>)

\* ---------------------------------------------------------- fromDeckFile
ZoneNames == <<"main", "side", "maybe">>

NextZone(z) ==
    CASE z = "main" -> "side"
      [] z = "side" -> "maybe"
      [] OTHER -> "return"

\* The collection fromDeckFile tests against nil for a zone (lines 348, 357, 366).
Tested(z) ==
    CASE z = "main" -> main
      [] z = "side" -> side
      [] OTHER -> maybe

\* The collection fromDeckFile hands to cardNamesToDeck for a zone
\* (lines 349, 358, 367).
Resolved(z) ==
    CASE z = "main" -> main
      [] z = "side" -> side
      [] OTHER -> side

Label(z) ==
    CASE z = "main" -> ""
      [] z = "side" -> " - Sideboard"
      [] OTHER -> " - Maybeboard"

\* The card references and the zones a resolved parse is made of.
Refs ==
    { [Name |-> <<"A">>, Set |-> NilSet],
      [Name |-> <<"B">>, Set |-> <<"M", "2", "0">>] }

FileRef(t, z, ref) ==
    [t EXCEPT ![z] = InsertCount(IF @.isNil THEN NewCardNames ELSE @,
                                 ref.Name, ref.Set, 1)]

\* The results of parses that filed at most k card lines.
RECURSIVE ParseResults(_)
ParseResults(k) ==
    IF k = 0
    THEN {[main |-> NilCardNames, side |-> NilCardNames, maybe |-> NilCardNames]}
    ELSE LET prev == ParseResults(k - 1)
         IN  prev \cup {FileRef(t, z, ref) :
                            t \in prev, z \in {"main", "side", "maybe"}, ref \in Refs}

\* Lines 417-431 and 557-569: a parse may end with a provisional sideboard
\* moved into main.
Merged(t) ==
    [t EXCEPT !.main = AppendAndSum(t.main, t.side), !.side = NilCardNames]

\* What parseDeckFile can hand to fromDeckFile.
ParseOutcomes ==
    ParseResults(MaxRefs)
        \cup {Merged(t) : t \in {u \in ParseResults(MaxRefs) :
                                    ~u.main.isNil /\ ~u.side.isNil}}

InitResolve ==
    /\ \E t \in ParseOutcomes :
        /\ main = t.main
        /\ side = t.side
        /\ maybe = t.maybe
    /\ ParserIdle
    /\ InsertIdle
    /\ WalkIdle
    /\ options \in [show_rulings : BOOLEAN, quality : Qualities]
    /\ zone = "main"
    /\ idx = 0
    /\ deck = NoDeck
    /\ decks = <<>>
    /\ ret = NoRet
    /\ lookups = <<>>
    /\ resp = NoResp

Resolving == zone \in {"main", "side", "maybe"}

\* Lines 350-352, 359-361, 368-370: return nil, err.
\* (variant: the decks collected so far are returned with the error)
ErrorReturnWithDecks(e) == [returned |-> TRUE, decks |-> decks, err |-> e]

ErrorReturn(e) == [returned |-> TRUE, decks |-> <<>>, err |-> e]

\* Lines 348, 357, 366 with a nil collection: the zone is passed over.
SkipZone ==
    /\ Resolving
    /\ idx = 0
    /\ Tested(zone).isNil
    /\ zone' = NextZone(zone)
    /\ UNCHANGED <<idx, deck, decks, ret, lookups, resp, options>>
    /\ UNCHANGED <<parserVars, insertVars, walkVars>>

\* Lines 149-166: cardNamesToDeck is entered; cards.Names of a nil pointer
\* is a nil pointer dereference.
EnterZone ==
    /\ Resolving
    /\ idx = 0
    /\ ~Tested(zone).isNil
    /\ IF Resolved(zone).isNil
       THEN /\ zone' = "panic"
            /\ UNCHANGED <<idx, deck>>
       ELSE /\ deck' = [Name |-> Label(zone), Cards |-> <<>>]
            /\ idx' = 1
            /\ zone' = zone
    /\ UNCHANGED <<decks, ret, lookups, resp, options>>
    /\ UNCHANGED <<parserVars, insertVars, walkVars>>

\* Lines 166-305: one iteration of the loop, and for an error the returns of
\* cardNamesToDeck and of fromDeckFile (lines 350-352, 359-361, 368-370).
ResolveCard ==
    /\ Resolving
    /\ idx \in 1..Len(Resolved(zone).Names)
    /\ LET cardInfo == Resolved(zone).Names[idx]
           count    == Resolved(zone).Counts[cardInfo.Name]
       IN  \E p \in CardShapes \cup {LookupError},
              r \in {"none", "ok", "err"},
              m \in MeldAnswers \cup {"none"} :
                /\ (r = "none") = ~AsksRulings(options, p)
                /\ (m = "none") = ~AsksMeld(p, r)
                /\ LET out == Iteration(cardInfo, count, options, p, r, m)
                   IN  /\ resp' = [primary |-> p, rulings |-> r, meld |-> m]
                       /\ lookups' = lookups \o Calls(cardInfo, options, p, r)
                       /\ CASE out.kind = "error" ->
                                /\ ret' = ErrorReturn(out.err)
                                /\ zone' = "returned"
                                /\ UNCHANGED <<idx, deck>>
                            [] out.kind = "panic" ->
                                /\ zone' = "panic"
                                /\ UNCHANGED <<idx, deck, ret>>
                            [] out.kind = "skip" ->
                                /\ idx' = idx + 1
                                /\ UNCHANGED <<zone, deck, ret>>
                            [] OTHER ->
                                /\ deck' = [deck EXCEPT !.Cards = Append(@, out.card)]
                                /\ idx' = idx + 1
                                /\ UNCHANGED <<zone, ret>>
    /\ UNCHANGED <<decks, options>>
    /\ UNCHANGED <<parserVars, insertVars, walkVars>>

\* Lines 307, 354, 363, 372: the loop is over, the deck is collected.
LeaveZone ==
    /\ Resolving
    /\ idx = Len(Resolved(zone).Names) + 1
    /\ decks' = Append(decks, deck)
    /\ deck' = NoDeck
    /\ idx' = 0
    /\ zone' = NextZone(zone)
    /\ UNCHANGED <<ret, lookups, resp, options>>
    /\ UNCHANGED <<parserVars, insertVars, walkVars>>

\* Line 375.
ReturnDecks ==
    /\ zone = "return"
    /\ ret' = [returned |-> TRUE, decks |-> decks, err |-> "nil"]
    /\ zone' = "returned"
    /\ UNCHANGED <<idx, deck, decks, lookups, resp, options>>
    /\ UNCHANGED <<parserVars, insertVars, walkVars>>

NextResolve ==
    \/ SkipZone
    \/ EnterZone
    \/ ResolveCard
    \/ LeaveZone
    \/ ReturnDecks

SpecResolve == InitResolve /\ [][NextResolve]_vars

\* ------------------------------------------------- CardNames.InsertCount
InsertNames == {<<"A">>, <<"B">>, <<"C">>}

InsertSets == {NilSet, <<"M", "2", "0">>}

InsertCountValues == {1, 2, 100}

InitInsert ==
    /\ main = NilCardNames
    /\ side = NilCardNames
    /\ maybe = NilCardNames
    /\ ParserIdle
    /\ ResolverIdle
    /\ WalkIdle
    /\ cn = NewCardNames
    /\ call = NoCall

\* c.InsertCount(name, set, count) on the CardNames cn.
DoInsertCount ==
    \E name \in InsertNames, set \in InsertSets, count \in InsertCountValues :
        /\ call.n < MaxInserts
        /\ cn' = InsertCount(cn, name, set, count)
        /\ call' = [n |-> call.n + 1, Name |-> name, Set |-> set, Count |-> count,
                    found |-> name \in DOMAIN cn.Counts]
        /\ UNCHANGED <<parserVars, resolverVars, walkVars>>

NextInsert == DoInsertCount

SpecInsert == InitInsert /\ [][NextInsert]_vars

\* ------------------------------------------- main, for a target directory
\* The target directory in the order filepath.Walk visits it (lexical, a
\* directory before what it holds): "file" and "dir" are entries of the
\* target itself, "inner" is a file of the directory before it. The path of
\* an entry is its place in the sequence.
EntryKinds == {"file", "dir", "inner"}

Trees ==
    {t \in UNION {[1..n -> EntryKinds] : n \in 0..MaxEntries} :
        \A i \in 1..Len(t) :
            t[i] = "inner" => i > 1 /\ t[i - 1] \in {"dir", "inner"}}

\* The place Walk goes to after the WalkFunc returned filepath.SkipDir for
\* the directory at place i: past everything the directory holds.
SkipDir(t, i) ==
    IF \E j \in (i + 1)..Len(t) : t[j] # "inner"
    THEN CHOOSE j \in (i + 1)..Len(t) :
            /\ t[j] # "inner"
            /\ \A k \in (i + 1)..(j - 1) : t[k] = "inner"
    ELSE Len(t) + 1

\* Lines 278-282: info.IsDir() returns filepath.SkipDir.
\* (variant: the WalkFunc returns nil and Walk descends into the directory)
OnDirectoryDescend(t, i) == i + 1

OnDirectory(t, i) == SkipDir(t, i)

InitWalk ==
    /\ main = NilCardNames
    /\ side = NilCardNames
    /\ maybe = NilCardNames
    /\ ParserIdle
    /\ ResolverIdle
    /\ InsertIdle
    /\ tree \in Trees
    /\ outputInTarget \in BOOLEAN
    /\ wi = 0
    /\ files = <<>>
    /\ handled = <<>>
    /\ made = <<>>
    /\ cpc = "walk"

\* Lines 272-276: the WalkFunc is first called with the target itself.
WalkTarget ==
    /\ cpc = "walk"
    /\ wi = 0
    /\ wi' = 1
    /\ UNCHANGED <<tree, outputInTarget, files, handled, made, cpc>>
    /\ UNCHANGED <<parserVars, resolverVars, insertVars>>

\* Lines 278-282.
WalkDirectory ==
    /\ cpc = "walk"
    /\ wi \in 1..Len(tree)
    /\ tree[wi] = "dir"
    /\ wi' = OnDirectory(tree, wi)
    /\ UNCHANGED <<tree, outputInTarget, files, handled, made, cpc>>
    /\ UNCHANGED <<parserVars, resolverVars, insertVars>>

\* Lines 284-289: files = append(files, path).
WalkFile ==
    /\ cpc = "walk"
    /\ wi \in 1..Len(tree)
    /\ tree[wi] # "dir"
    /\ files' = Append(files, wi)
    /\ wi' = wi + 1
    /\ UNCHANGED <<tree, outputInTarget, handled, made, cpc>>
    /\ UNCHANGED <<parserVars, resolverVars, insertVars>>

\* Lines 268-270 and 291-293: the WalkFunc is called with an error, returns
\* it, Walk returns it and log.Fatal ends the process.
WalkError ==
    /\ cpc = "walk"
    /\ wi \in 0..Len(tree)
    /\ cpc' = "fatal"
    /\ UNCHANGED <<tree, outputInTarget, wi, files, handled, made>>
    /\ UNCHANGED <<parserVars, resolverVars, insertVars>>

\* Lines 290-291: Walk has returned nil.
WalkEnd ==
    /\ cpc = "walk"
    /\ wi = Len(tree) + 1
    /\ cpc' = "handle"
    /\ UNCHANGED <<tree, outputInTarget, wi, files, handled, made>>
    /\ UNCHANGED <<parserVars, resolverVars, insertVars>>

\* Lines 295-299 and 146-164: handleTarget fails (dc.Parse or
\* tts.GenerateTemplates returned an error) and log.Fatal ends the process.
HandleFails ==
    /\ cpc = "handle"
    /\ Len(handled) < Len(files)
    /\ handled' = Append(handled, files[Len(handled) + 1])
    /\ cpc' = "fatal"
    /\ UNCHANGED <<tree, outputInTarget, wi, files, made>>
    /\ UNCHANGED <<parserVars, resolverVars, insertVars>>

\* Lines 295-299 and 146-164: handleTarget returns nil after tts.Generate
\* wrote a file into outputFolder.
HandleSucceeds ==
    /\ cpc = "handle"
    /\ Len(handled) < Len(files)
    /\ handled' = Append(handled, files[Len(handled) + 1])
    /\ IF outputInTarget
       THEN /\ tree' = Append(tree, "file")
            /\ made' = Append(made, Len(tree) + 1)
       ELSE UNCHANGED <<tree, made>>
    /\ UNCHANGED <<outputInTarget, wi, files, cpc>>
    /\ UNCHANGED <<parserVars, resolverVars, insertVars>>

\* Lines 300-302: every collected file was handled.
Return ==
    /\ cpc = "handle"
    /\ Len(handled) = Len(files)
    /\ cpc' = "done"
    /\ UNCHANGED <<tree, outputInTarget, wi, files, handled, made>>
    /\ UNCHANGED <<parserVars, resolverVars, insertVars>>

NextWalk ==
    \/ WalkTarget
    \/ WalkDirectory
    \/ WalkFile
    \/ WalkError
    \/ WalkEnd
    \/ HandleFails
    \/ HandleSucceeds
    \/ Return

SpecWalk == InitWalk /\ [][NextWalk]_vars

\* ================================================================ claims
\* Helpers of the statements below.
NoDupNames(c) ==
    \A i, j \in 1..Len(c.Names) : c.Names[i].Name = c.Names[j].Name => i = j

\* The counts of m after every card of s has been moved into it.
MovedInto(m, s, m2) ==
    /\ ~m2.isNil
    /\ DOMAIN m2.Counts = DOMAIN m.Counts \cup DOMAIN s.Counts
    /\ \A n \in DOMAIN s.Counts :
          m2.Counts[n] = IF n \in DOMAIN m.Counts
                         THEN IntAdd(m.Counts[n], s.Counts[n])
                         ELSE s.Counts[n]
    /\ \A n \in DOMAIN m.Counts \ DOMAIN s.Counts : m2.Counts[n] = m.Counts[n]
    /\ \A i \in 1..Len(s.Names) :
          \E j \in 1..Len(m2.Names) : m2.Names[j].Name = s.Names[i].Name

\* The first expression of the table that matches a line, 0 if none does.
FirstMatch(L) ==
    IF \A i \in 1..NumRegexps : ~LineMatches[L][i].ok THEN 0
    ELSE CHOOSE i \in 1..NumRegexps :
            /\ LineMatches[L][i].ok
            /\ \A j \in 1..(i - 1) : ~LineMatches[L][j].ok

\* A line with the SB: prefix that yields a card (its count is an int).
IsSBCardLine(L) ==
    /\ L \in Lines
    /\ HasPrefix(L, SBPrefix)
    /\ FirstMatch(L) # 0
    /\ ~Atoi(LineMatches[L][FirstMatch(L)].Count).err

\* The step that processes the line `line'` in the scan loop.
LineStep == pc = "scan" /\ nread' = nread + 1

\* C1: every zone collection parseDeckFile returns lists each card name at
\* most once in Names, also after the two merges of the sideboard into main.
C1_NamesListedOnce ==
    pc = "done" => NoDupNames(main) /\ NoDupNames(side) /\ NoDupNames(maybe)

\* C2: the first SB: card line processed while the sideboard holds cards
\* moves every sideboard card into main (counts added), discards that
\* sideboard and files its own card into a fresh sideboard.
C2_BoundaryRetraction ==
    [][(/\ LineStep
        /\ IsSBCardLine(line')
        /\ ~sbLineFound
        /\ ~side.isNil
        /\ Len(side.Names) > 0)
       => LET m == LineMatches[line'][FirstMatch(line')]
          IN  /\ MovedInto(main, side, main')
              /\ ~side'.isNil
              /\ Len(side'.Names) = 1
              /\ side'.Names[1].Name = NameOf(m)
              /\ side'.Counts[NameOf(m)] = Atoi(m.Count).val]_vars

\* C3: when the scan loop has ended, the sideboard is merged into main and
\* returned absent exactly if it exists, no SB: line was seen and more than
\* one empty line was counted; otherwise main and sideboard are returned as
\* they stood after the last line.
C3_EndOfInputMerge ==
    [][(pc = "scan" /\ pc' = "done")
       => /\ (~side.isNil /\ side'.isNil /\ MovedInto(main, side, main'))
                <=> (~side.isNil /\ ~sbLineFound /\ emptyLineCount > 1)
          /\ ~(~side.isNil /\ ~sbLineFound /\ emptyLineCount > 1)
                => (side' = side /\ main' = main)
          /\ maybe' = maybe]_vars

\* C3 witness: a parse that ended with the merge: main lists the card A of
\* the provisional sideboard after its own A, with the summed count.
C3_Witness ==
    /\ pc = "done"
    /\ ~sbLineFound
    /\ emptyLineCount > 1
    /\ side.isNil
    /\ ~main.isNil
    /\ Len(main.Names) = 2
    /\ main.Names[1].Name = <<"A">>
    /\ main.Names[2].Name = <<"A">>
    /\ main.Counts[<<"A">>] = 2

\* C4: parseDeckFile processes every input without crashing.
C4_NeverCrashes == pc # "panic"

\* The step that runs one iteration of the loop of cardNamesToDeck: every
\* iteration calls the service at least once.
IterStep == zone \in {"main", "side", "maybe"} /\ lookups' # lookups

\* C5: the deck labelled " - Maybeboard" is resolved from the cards of the
\* maybeboard collection, whether the sideboard is present or absent.
C5_MaybeboardFromMaybe ==
    [][zone = "maybe"
       => /\ (idx = 0 => zone' # "panic")
          /\ IterStep
                => /\ idx <= Len(maybe.Names)
                   /\ lookups'[Len(lookups) + 1].Name = maybe.Names[idx].Name]_vars

\* C6: a failure of GetCardByName ends the resolution at that card with the
\* error of the lookup, and no deck, complete or partial, is returned.
C6_PrimaryFailureAborts ==
    [][(IterStep /\ ~resp'.primary.ok)
       => /\ zone' = "returned"
          /\ ret'.returned
          /\ ret'.err = "lookup"
          /\ ret'.decks = <<>>
          /\ Len(lookups') = Len(lookups) + 1]_vars

\* C6 witness: the lookup failed after a card of the zone had been resolved;
\* nothing is returned.
C6_Witness ==
    /\ ret.returned
    /\ ret.err = "lookup"
    /\ ret.decks = <<>>
    /\ Len(deck.Cards) > 0

\* C7: a meld card without parts, without a meld-result part, or whose
\* meld result cannot be fetched is left out, and the loop goes on with the
\* next card of the zone without an error.
C7_MeldSkipped ==
    [][(/\ IterStep
        /\ resp'.primary.ok
        /\ resp'.rulings # "err"
        /\ resp'.primary.Layout = "meld"
        /\ \/ Len(resp'.primary.AllParts) = 0
           \/ \A k \in 1..Len(resp'.primary.AllParts) :
                    resp'.primary.AllParts[k] # "meld_result"
           \/ resp'.meld = "err")
       => /\ deck' = deck
          /\ idx' = idx + 1
          /\ zone' = zone
          /\ ret' = ret]_vars

\* C7 witness: main was a meld card whose meld result could not be fetched,
\* followed by another card; the deck returned for main is that card alone.
C7_Witness ==
    /\ ret.returned
    /\ ret.err = "nil"
    /\ Len(main.Names) = 2
    /\ Len(lookups) = 3
    /\ lookups[2].call = "GetCard"
    /\ Len(ret.decks) = 1
    /\ Len(ret.decks[1].Cards) = 1
    /\ ret.decks[1].Cards[1].Name = main.Names[2].Name

\* C8: with show_rulings, a failure of GetRulings ends the resolution with
\* that error; the failed call is the last call made.
C8_RulingsFailureAborts ==
    [][(IterStep /\ options.show_rulings /\ resp'.rulings = "err")
       => /\ zone' = "returned"
          /\ ret'.returned
          /\ ret'.err = "rulings"
          /\ lookups'[Len(lookups')].call = "GetRulings"]_vars

\* C8 witness: the rulings of the first of two cards failed; the second card
\* was never looked up.
C8_Witness ==
    /\ options.show_rulings
    /\ ret.err = "rulings"
    /\ Len(main.Names) = 2
    /\ Len(lookups) = 2
    /\ lookups[2].call = "GetRulings"

\* C9 (as claimed): a failure of GetRulings does not end the resolution of
\* the zone; the loop goes on with the next card.
C9_RulingsFailureRecoverable ==
    [][(IterStep /\ resp'.rulings = "err")
       => /\ zone' = zone
          /\ ret' = ret
          /\ idx' = idx + 1]_vars

\* C9 (amended): a failure of GetRulings is fatal to the batch: the card is
\* not added to the deck, the loop does not advance, and fromDeckFile
\* returns an error and no decks.
C9_RulingsFailureFatal ==
    [][(IterStep /\ resp'.rulings = "err")
       => /\ deck' = deck
          /\ idx' = idx
          /\ zone' \notin {"main", "side", "maybe", "return"}
          /\ ret'.err # "nil"
          /\ ret'.decks = <<>>]_vars

\* C9 witness: the rulings lookup failed in a later zone, after the deck of
\* an earlier zone was complete; no deck is returned.
C9_Witness ==
    /\ ret.returned
    /\ ret.err = "rulings"
    /\ Len(decks) = 1
    /\ ret.decks = <<>>

\* C10: InsertCount of a name not yet present appends one entry (name and
\* set) at the end of Names and stores the count; InsertCount of a name
\* already present adds the count to the stored one and leaves Names as it
\* was; no other count changes.
C10_InsertCount ==
    [][call'.n = call.n + 1
       => LET a == call'
              present == \E i \in 1..Len(cn.Names) : cn.Names[i].Name = a.Name
          IN  /\ DOMAIN cn'.Counts = DOMAIN cn.Counts \cup {a.Name}
              /\ \A n \in DOMAIN cn.Counts \ {a.Name} : cn'.Counts[n] = cn.Counts[n]
              /\ IF present
                 THEN /\ cn'.Names = cn.Names
                      /\ cn'.Counts[a.Name] = IntAdd(cn.Counts[a.Name], a.Count)
                 ELSE /\ cn'.Names = Append(cn.Names, [Name |-> a.Name, Set |-> a.Set])
                      /\ cn'.Counts[a.Name] = a.Count]_vars

\* C10 witness: A inserted with count 1 and no set, then with count 2 and a
\* set: one entry, count 3, the set of the first insertion.
C10_Witness ==
    /\ call.n = 2
    /\ call.found
    /\ call.Count = 2
    /\ call.Set = <<"M", "2", "0">>
    /\ cn.Names = << [Name |-> <<"A">>, Set |-> NilSet] >>
    /\ cn.Counts[<<"A">>] = 3

\* A line handed to parseDeckLine that a grammar matches with a non-empty
\* SB: capture.
IsSBLine(L) ==
    /\ L \in Lines
    /\ FirstMatch(L) # 0
    /\ Len(LineMatches[L][FirstMatch(L)].Sideboard) > 0

\* The step that processes the line `line'` to its end.
LineDone == LineStep /\ pc' = "scan"

\* C11: the first SB: line sets the zone to Sideboard and the marker-seen
\* flag; every later SB: line leaves the zone as it is and merges nothing:
\* main is unchanged and the sideboard keeps its cards. The flag, once set,
\* stays set.
C11_SwitchOnce ==
    [][/\ sbLineFound => sbLineFound'
       /\ (LineDone /\ IsSBLine(line'))
            => IF ~sbLineFound
               THEN step' = "Sideboard" /\ sbLineFound'
               ELSE /\ step' = step
                    /\ main' = main
                    /\ side.isNil \/ /\ ~side'.isNil
                                     /\ Len(side'.Names) >= Len(side.Names)
                                     /\ SubSeq(side'.Names, 1, Len(side.Names)) = side.Names]_vars

\* C11 witness: after a first SB: line and a Maybeboard header, a second
\* SB: line was filed in the maybeboard; the sideboard still holds its card.
C11_Witness ==
    /\ pc = "scan"
    /\ sbLineFound
    /\ step = "Maybeboard"
    /\ line = <<"S", "B", ":", " ", "2", " ", "[", "M", "2", "0", "]", " ", "C">>
    /\ ~maybe.isNil
    /\ <<"C">> \in DOMAIN maybe.Counts
    /\ ~side.isNil
    /\ <<"A">> \in DOMAIN side.Counts

\* The step of an iteration that added a card to the deck of the zone.
EmitStep == IterStep /\ Len(deck'.Cards) = Len(deck.Cards) + 1

\* The tier the specification names for a quality and a high-resolution flag.
TierFor(quality, highres) ==
    IF quality \in {"small", "normal"} THEN quality
    ELSE IF highres THEN quality
    ELSE "normal"

\* C12: every image URL of an emitted card is the small URL for quality
\* small and the normal URL for quality normal, whatever the high-resolution
\* flag of the card it belongs to; for large or png it is the large or png
\* URL when the flag is set and the normal URL when it is not; it is never
\* empty.
C12_ImageTier ==
    [][EmitStep =>
        LET c == deck'.Cards[Len(deck'.Cards)]
            p == resp'.primary
            q == options.quality
        IN  /\ c.ImageURL = <<c.Name, TierFor(q, p.HighresImage)>>
            /\ \A k \in 1..Len(c.AlternativeState) :
                 LET a == c.AlternativeState[k]
                     h == IF p.Layout = "meld" THEN resp'.meld = "highres"
                          ELSE p.HighresImage
                 IN  a.ImageURL = <<a.Name, TierFor(q, h)>>]_vars

\* C12 witness: png was asked for, the card has no high-resolution image and
\* was emitted with its normal URL.
C12_Witness ==
    /\ zone = "main"
    /\ options.quality = "png"
    /\ idx = 2
    /\ Len(deck.Cards) = 1
    /\ resp.primary.ok
    /\ ~resp.primary.HighresImage
    /\ deck.Cards[1].ImageURL = <<main.Names[1].Name, "normal">>

\* C13: every count stored in a zone collection that parseDeckFile returns
\* is at least 1.
C13_CountsPositive ==
    (pc = "done" /\ err = "nil")
        => \A z \in {main, side, maybe} :
             z.isNil \/ \A n \in DOMAIN z.Counts : z.Counts[n] >= 1

\* The names listed in a collection.
NamesOf(c) == { c.Names[k].Name : k \in 1..Len(c.Names) }

\* C14: after every line and at the end of the parse, each zone collection
\* is nil or holds at least one name, and the names listed in Names are
\* exactly the keys of Counts.
C14_NamesAreCountKeys ==
    \A z \in {main, side, maybe} :
        \/ z.isNil /\ Len(z.Names) = 0 /\ DOMAIN z.Counts = {}
        \/ ~z.isNil /\ Len(z.Names) >= 1 /\ NamesOf(z) = DOMAIN z.Counts

\* C14 witness: the parse is over, an SB: line moved a provisional sideboard
\* that repeated a main card into main, and the sideboard holds the SB: card.
C14_Witness ==
    /\ pc = "done"
    /\ sbLineFound
    /\ ~main.isNil
    /\ Len(main.Names) = 2
    /\ main.Names[1].Name = main.Names[2].Name
    /\ NamesOf(main) = {<<"A">>}
    /\ ~side.isNil
    /\ NamesOf(side) = {<<"C">>}

\* The answer of GetCardByName sends the iteration into the single-face
\* branch: the card is found, the rulings did not fail, and the card is not
\* a meld card and has no faces or has layout flip, split or adventure.
InSingleFaceBranch(r) ==
    /\ r.primary.ok
    /\ r.rulings # "err"
    /\ r.primary.Layout # "meld"
    /\ \/ r.primary.NumFaces = 0
       \/ r.primary.Layout \in {"flip", "split", "adventure"}

\* C15: in the single-face branch a card without a primary image ends the
\* resolution with an error: no card is added to the deck, no deck is
\* returned, and no later card is looked up.
C15_NoImageAborts ==
    [][/\ (IterStep /\ InSingleFaceBranch(resp') /\ ~resp'.primary.HasImageURIs)
          => /\ zone' = "returned"
             /\ ret'.returned
             /\ ret'.err = "no image"
             /\ ret'.decks = <<>>
             /\ deck' = deck
             /\ idx' = idx
       /\ zone = "returned" => lookups' = lookups]_vars

\* C15 witness: main holds two cards, the first was found without an image
\* in the single-face branch; the resolution returned the error after that
\* one lookup.
C15_Witness ==
    /\ zone = "returned"
    /\ ret.err = "no image"
    /\ Len(main.Names) = 2
    /\ Len(lookups) = 1
    /\ lookups[1].call = "GetCardByName"
    /\ InSingleFaceBranch(resp)
    /\ ~resp.primary.HasImageURIs
    /\ resp.primary.Layout = "flip"

\* C16: no name stored in a zone collection contains the triple slash.
C16_NoTripleSlash ==
    \A z \in {main, side, maybe} :
        \A k \in 1..Len(z.Names) :
            ~Contains(z.Names[k].Name, <<"/", "/", "/">>)

\* The collection of a zone among three.
ZoneColl(z, m, s, mb) ==
    CASE z = "Main" -> m
      [] z = "Sideboard" -> s
      [] OTHER -> mb

\* The step that processes a line a grammar matches with a count that is
\* an int, to its end; then the match that gives the fields, the zone
\* collection the card is filed in, and that collection before the card
\* (nil when this very line switched to the sideboard: a sideboard that
\* held cards has just been moved into main).
CardStep ==
    /\ LineDone
    /\ line' \in Lines
    /\ Len(line') # 0
    /\ ~HasPrefix(line', <<"S", "i", "d", "e", "b", "o", "a", "r", "d">>)
    /\ ~HasPrefix(line', <<"M", "a", "y", "b", "e", "b", "o", "a", "r", "d">>)
    /\ ~HasPrefix(line', <<"/", "/">>)
    /\ FirstMatch(line') # 0
    /\ ~Atoi(LineMatches[line'][FirstMatch(line')].Count).err

TheMatch == LineMatches[line'][FirstMatch(line')]

FiledIn == ZoneColl(step', main', side', maybe')

FiledInBefore ==
    IF ~sbLineFound /\ sbLineFound' THEN NilCardNames
    ELSE ZoneColl(step', main, side, maybe)

\* The set code the specification gives to a match.
StoredSetFor(m) ==
    IF ~m.hasSet THEN NilSet
    ELSE IF m.Set = <<"0", "0", "0">> THEN NilSet
    ELSE m.Set

IsDeckLine(L) ==
    /\ L \in Lines
    /\ Len(L) # 0
    /\ ~HasPrefix(L, <<"S", "i", "d", "e", "b", "o", "a", "r", "d">>)
    /\ ~HasPrefix(L, <<"M", "a", "y", "b", "e", "b", "o", "a", "r", "d">>)
    /\ ~HasPrefix(L, <<"/", "/">>)

WorkstationLine == <<"S", "B", ":", " ", "2", " ", "[", "M", "2", "0", "]", " ", "C">>

\* C18: the first grammar that matches, in the order Arena, Workstation,
\* Generic, gives the name and the count that are filed; the line
\* "SB: 2 [M20] C" is read by Workstation: 2 of the name C with set M20,
\* the bracketed set is no part of the name; a line that no grammar matches
\* files nothing and leaves the parse state as it was.
C18_FirstMatchDecides ==
    [][/\ CardStep
          => LET nm == NameOf(TheMatch)
                 n  == Atoi(TheMatch.Count).val
             IN  /\ ~FiledIn.isNil
                 /\ nm \in DOMAIN FiledIn.Counts
                 /\ FiledIn.Counts[nm] =
                        IF nm \in DOMAIN FiledInBefore.Counts
                        THEN IntAdd(FiledInBefore.Counts[nm], n)
                        ELSE n
                 /\ DOMAIN FiledIn.Counts = DOMAIN FiledInBefore.Counts \cup {nm}
       /\ (CardStep /\ line' = WorkstationLine)
          => /\ FirstMatch(line') = 2
             /\ NameOf(TheMatch) = <<"C">>
             /\ TheMatch.Set = <<"M", "2", "0">>
             /\ \A k \in 1..Len(FiledIn.Names) : FiledIn.Names[k].Name[1] # "["
       /\ (LineStep /\ IsDeckLine(line') /\ FirstMatch(line') = 0)
          => /\ pc' = "scan"
             /\ UNCHANGED <<main, side, maybe, step, sbLineFound, emptyLineCount>>]_vars

\* C18 witness: the line "SB: 2 [M20] C" put 2 of C with set M20 in the
\* sideboard, after a line that filed nothing and was not empty.
C18_Witness ==
    /\ pc = "scan"
    /\ nread = 2
    /\ emptyLineCount = 0
    /\ line = WorkstationLine
    /\ main.isNil
    /\ ~side.isNil
    /\ side.Names = << [Name |-> <<"C">>, Set |-> <<"M", "2", "0">>] >>
    /\ side.Counts[<<"C">>] = 2

OneCharSetLine == <<"1", " ", "C", " ", "(", "X", ")">>

\* C19 (as stated): the Arena grammar takes a parenthesised set code of two
\* characters or more only; the line "1 C (X)" is not read as an Arena line
\* and stores no card C with set X.
C19_ArenaSetTwoOrMore ==
    [][/\ (CardStep /\ FirstMatch(line') = 1) => Len(TheMatch.Set) >= 2
       /\ (LineDone /\ line' = OneCharSetLine)
          => /\ FirstMatch(line') # 1
             /\ \A k \in 1..Len(FiledIn.Names) :
                    FiledIn.Names[k] # [Name |-> <<"C">>, Set |-> <<"X">>]]_vars

\* C19 (amended): the Arena grammar takes a parenthesised set code of one
\* character or more, each an uppercase letter, a digit or an underscore;
\* the line "1 C (X)" is read as an Arena line: one card C with set X.
C19_ArenaSetOneOrMore ==
    [][/\ (CardStep /\ FirstMatch(line') = 1)
          => /\ Len(TheMatch.Set) >= 1
             /\ \A k \in 1..Len(TheMatch.Set) : TheMatch.Set[k] \in SetChars
       /\ (LineDone /\ line' = OneCharSetLine)
          => /\ FirstMatch(line') = 1
             /\ TheMatch.Count = <<"1">>
             /\ TrimSpace(TheMatch.Name) = <<"C">>
             /\ TheMatch.Set = <<"X">>
             /\ <<"C">> \in DOMAIN FiledIn.Counts
             /\ <<"C">> \notin DOMAIN FiledInBefore.Counts
                  => FiledIn.Names[Len(FiledIn.Names)] =
                        [Name |-> <<"C">>, Set |-> <<"X">>]]_vars

\* C19 witness: the line "1 C (X)" alone gave main one card C with set X.
C19_Witness ==
    /\ pc = "scan"
    /\ nread = 1
    /\ line = OneCharSetLine
    /\ ~main.isNil
    /\ main.Names = << [Name |-> <<"C">>, Set |-> <<"X">>] >>
    /\ main.Counts[<<"C">>] = 1

\* The card the step has just added to the deck of the zone, and the card
\* name the iteration was about.
Emitted == deck'.Cards[Len(deck'.Cards)]

IterName == lookups'[Len(lookups) + 1].Name

\* C20: an emitted card has at most one alternate state, which has none of
\* its own. A card of the meld branch has one, the meld result, marked
\* oversized; a card of the transform branch has one, the back face; a card
\* of the single-face branch has none.
C20_AlternateStates ==
    [][EmitStep =>
        LET c == Emitted
            p == resp'.primary
        IN  /\ Len(c.AlternativeState) <= 1
            /\ \A k \in 1..Len(c.AlternativeState) :
                    Len(c.AlternativeState[k].AlternativeState) = 0
            /\ IF p.Layout = "meld"
               THEN /\ Len(c.AlternativeState) = 1
                    /\ c.Name = IterName
                    /\ c.AlternativeState[1].Name = MeldResultName(IterName)
                    /\ c.AlternativeState[1].Oversized
               ELSE IF InSingleFaceBranch(resp')
               THEN /\ Len(c.AlternativeState) = 0
                    /\ c.Name = IterName
               ELSE /\ Len(c.AlternativeState) = 1
                    /\ c.Name = FaceName(IterName, 0)
                    /\ c.AlternativeState[1].Name = FaceName(IterName, 1)]_vars

\* C20 witness: the deck of main holds a single-face card without alternate
\* state followed by a transform card whose alternate state is its back
\* face.
C20_Witness ==
    /\ zone = "main"
    /\ idx = 3
    /\ Len(deck.Cards) = 2
    /\ deck.Cards[1].Name = main.Names[1].Name
    /\ Len(deck.Cards[1].AlternativeState) = 0
    /\ deck.Cards[2].Name = FaceName(main.Names[2].Name, 0)
    /\ Len(deck.Cards[2].AlternativeState) = 1
    /\ deck.Cards[2].AlternativeState[1].Name = FaceName(main.Names[2].Name, 1)

\* The names of a collection in the order of their first insertion, each
\* listed once.
RECURSIVE FirstInsertions(_)
FirstInsertions(names) ==
    IF Len(names) = 0 THEN <<>>
    ELSE LET front == FirstInsertions(SubSeq(names, 1, Len(names) - 1))
             last  == names[Len(names)].Name
         IN  IF \E k \in 1..Len(front) : front[k] = last
             THEN front
             ELSE Append(front, last)

\* The collection of the zone fromDeckFile is resolving.
ZoneCards == Tested(zone)

\* C21: the i-th iteration of a zone looks up the i-th distinct name of the
\* zone, in first-insertion order, and a card it emits carries the count the
\* zone holds for that name; the zone is left when every distinct name has
\* had its one iteration.
C21_OneCardPerName ==
    [][/\ IterStep
          => /\ idx <= Len(FirstInsertions(ZoneCards.Names))
             /\ IterName = FirstInsertions(ZoneCards.Names)[idx]
             /\ EmitStep => Emitted.Count = ZoneCards.Counts[IterName]
       /\ (Resolving /\ idx > 0 /\ zone' = NextZone(zone))
          => idx = Len(FirstInsertions(ZoneCards.Names)) + 1]_vars

SideboardHeader == <<"S", "i", "d", "e", "b", "o", "a", "r", "d">>

MaybeboardHeader == <<"M", "a", "y", "b", "e", "b", "o", "a", "r", "d">>

\* C22: a line starting with "Sideboard" takes the zone from Main to
\* Sideboard and leaves any other zone; a line starting with "Maybeboard"
\* sets the zone to Maybeboard; a line starting with "//" leaves the zone.
\* None of the three touches the collections, the marker-seen flag or the
\* blank-line counter.
C22_HeaderLines ==
    [][(LineStep /\ Len(line') # 0)
        => /\ HasPrefix(line', SideboardHeader)
                => /\ step = "Main" => step' = "Sideboard"
                   /\ step # "Main" => step' = step
           /\ HasPrefix(line', MaybeboardHeader) => step' = "Maybeboard"
           /\ HasPrefix(line', <<"/", "/">>) => step' = step
           /\ (\/ HasPrefix(line', SideboardHeader)
               \/ HasPrefix(line', MaybeboardHeader)
               \/ HasPrefix(line', <<"/", "/">>))
                => /\ pc' = "scan"
                   /\ UNCHANGED <<main, side, maybe, sbLineFound, emptyLineCount>>]_vars

\* C22 witness: a "Sideboard" header read in the maybeboard, after a card
\* was filed there, left the zone and the card where they were.
C22_Witness ==
    /\ pc = "scan"
    /\ line = SideboardHeader
    /\ step = "Maybeboard"
    /\ ~maybe.isNil
    /\ main.isNil
    /\ side.isNil
    /\ nread = 3

\* C23: an empty line read while main holds no card changes neither the
\* zone nor the blank-line counter; read once main holds a card it adds one
\* to the counter and changes the zone only from Main, to Sideboard; it
\* never changes a collection.
C23_EmptyLines ==
    [][(LineStep /\ Len(line') = 0)
        => /\ pc' = "scan"
           /\ UNCHANGED <<main, side, maybe>>
           /\ IF main.isNil \/ Len(main.Names) = 0
              THEN UNCHANGED <<step, emptyLineCount>>
              ELSE /\ emptyLineCount' = emptyLineCount + 1
                   /\ step = "Main" => step' = "Sideboard"
                   /\ step # "Main" => step' = step]_vars

\* C23 witness: two empty lines read in the maybeboard with a card in main:
\* both were counted and the zone stayed.
C23_Witness ==
    /\ pc = "scan"
    /\ line = <<>>
    /\ step = "Maybeboard"
    /\ emptyLineCount = 2
    /\ ~main.isNil
    /\ side.isNil
    /\ maybe.isNil

\* C24: a line that a grammar matches but whose count is no int leaves the
\* collections, the zone, the marker-seen flag and the blank-line counter
\* as they were, with or without an SB: prefix.
C24_BadCountSkipped ==
    [][(/\ LineStep
        /\ IsDeckLine(line')
        /\ FirstMatch(line') # 0
        /\ Atoi(LineMatches[line'][FirstMatch(line')].Count).err)
       => /\ pc' = "scan"
          /\ UNCHANGED <<main, side, maybe, step, sbLineFound, emptyLineCount>>]_vars

\* C25: cards of the sideboard that were not filed after a switch by an
\* empty line are never moved into main. While the blank-line counter is 0
\* no empty line has switched the zone, so the cards the sideboard holds
\* (filed after a "Sideboard" header) stay in it at every step.
C25_HeaderSideboardStays ==
    [][(pc = "scan" /\ emptyLineCount = 0 /\ ~side.isNil)
        => /\ ~side'.isNil
           /\ Len(side'.Names) >= Len(side.Names)
           /\ SubSeq(side'.Names, 1, Len(side.Names)) = side.Names
           /\ \A n \in DOMAIN side.Counts : n \notin DOMAIN main.Counts
                    => n \notin DOMAIN main'.Counts]_vars

\* C26: the zone changes only from Main to Sideboard (an empty line once
\* main holds a card, a "Sideboard" header, the first SB: line), from any
\* zone to Maybeboard (a "Maybeboard" header) and from Maybeboard to
\* Sideboard (the first SB: line); it never becomes Main again. The
\* maybeboard keeps its names, and a count of it changes only by a card
\* line filed in the maybeboard.
C26_ZoneOrder ==
    [][/\ step' # step
          => /\ LineStep
             /\ step' # "Main"
             /\ \/ /\ step = "Main"
                   /\ step' = "Sideboard"
                   /\ \/ Len(line') = 0 /\ ~main.isNil /\ Len(main.Names) > 0
                      \/ HasPrefix(line', SideboardHeader)
                      \/ IsSBLine(line') /\ ~sbLineFound
                \/ /\ step' = "Maybeboard"
                   /\ HasPrefix(line', MaybeboardHeader)
                \/ /\ step = "Maybeboard"
                   /\ step' = "Sideboard"
                   /\ IsSBLine(line') /\ ~sbLineFound
       /\ ~maybe.isNil
          => /\ ~maybe'.isNil
             /\ Len(maybe'.Names) >= Len(maybe.Names)
             /\ SubSeq(maybe'.Names, 1, Len(maybe.Names)) = maybe.Names
             /\ \A n \in DOMAIN maybe.Counts :
                    \/ maybe'.Counts[n] = maybe.Counts[n]
                    \/ CardStep /\ step' = "Maybeboard" /\ NameOf(TheMatch) = n
       /\ maybe' # maybe => CardStep /\ step' = "Maybeboard"]_vars

\* C26 witness: a card was filed in the maybeboard, then the first SB: line
\* took the zone from Maybeboard to Sideboard; the maybeboard kept its card.
C26_Witness ==
    /\ pc = "scan"
    /\ nread = 3
    /\ step = "Sideboard"
    /\ sbLineFound
    /\ main.isNil
    /\ ~maybe.isNil
    /\ ~side.isNil
    /\ NamesOf(maybe) = {<<"A">>}
    /\ NamesOf(side) = {<<"A">>}

\* The sum of the counts of a Counts map, and of the three zones.
RECURSIVE SumOver(_, _)
SumOver(counts, keys) ==
    IF keys = {} THEN 0
    ELSE LET n == CHOOSE k \in keys : TRUE
         IN  counts[n] + SumOver(counts, keys \ {n})

SumCounts(c) == SumOver(c.Counts, DOMAIN c.Counts)

TotalCount == SumCounts(main) + SumCounts(side) + SumCounts(maybe)

TotalCountAfter == SumCounts(main') + SumCounts(side') + SumCounts(maybe')

\* C27: every step adds to the sum of the counts of the three zones exactly
\* the count of the card line it files, and nothing when it files none; the
\* merge by an SB: line and the merge at the end of input leave the sum as
\* it was.
C27_Conservation ==
    [][TotalCountAfter =
            TotalCount + (IF CardStep THEN Atoi(TheMatch.Count).val ELSE 0)]_vars

\* C27 witness: main held A once, the provisional sideboard held A once, the
\* SB: line of 2 C moved the sideboard into main: 2 A in main, 2 C in the
\* sideboard, 4 cards in all.
C27_Witness ==
    /\ pc = "scan"
    /\ nread = 4
    /\ emptyLineCount = 1
    /\ sbLineFound
    /\ ~main.isNil
    /\ ~side.isNil
    /\ maybe.isNil
    /\ DOMAIN main.Counts = {<<"A">>}
    /\ main.Counts[<<"A">>] = 2
    /\ DOMAIN side.Counts = {<<"C">>}
    /\ side.Counts[<<"C">>] = 2
    /\ TotalCount = 4

\* The place of a zone in the order fromDeckFile goes through.
ZoneRank(z) ==
    CASE z = "main" -> 1
      [] z = "side" -> 2
      [] z = "maybe" -> 3
      [] z = "return" -> 4
      [] OTHER -> 5

\* The calls a step has added to the calls made so far.
NewCalls == SubSeq(lookups', Len(lookups) + 1, Len(lookups'))

\* C28: lookups are made one card at a time, in the order main, sideboard,
\* maybeboard and in the order of Names within the zone: a step that makes
\* calls makes them for the card at the current place of the current zone,
\* GetCardByName first and the secondary lookups of that card after it;
\* zones and places only move forward; after a failure that ends the
\* resolution no call is made and no deck is returned.
C28_LookupOrder ==
    [][/\ lookups' # lookups
          => /\ Resolving
             /\ idx \in 1..Len(ZoneCards.Names)
             /\ Len(NewCalls) \in 1..3
             /\ NewCalls[1] = [call |-> "GetCardByName",
                               Name |-> ZoneCards.Names[idx].Name,
                               Set |-> ZoneCards.Names[idx].Set]
             /\ \A k \in 2..Len(NewCalls) :
                    /\ NewCalls[k].call \in {"GetRulings", "GetCard"}
                    /\ \A j \in 2..(k - 1) : NewCalls[j].call # NewCalls[k].call
             /\ zone' = zone => idx' = idx + 1
       /\ zone' # zone => ZoneRank(zone') > ZoneRank(zone)
       /\ (Resolving /\ zone' = zone) => idx' >= idx
       /\ (zone' = "returned" /\ ret'.err # "nil") => ret'.decks = <<>>
       /\ zone = "returned" => lookups' = lookups /\ ret' = ret]_vars

\* The answer of GetCardByName sends the iteration into the transform
\* branch: the card is found, the rulings did not fail, the card is not a
\* meld card, has a face and is not of layout flip, split or adventure.
InTransformBranch(r) ==
    /\ r.primary.ok
    /\ r.rulings # "err"
    /\ r.primary.Layout # "meld"
    /\ r.primary.NumFaces >= 1
    /\ r.primary.Layout \notin {"flip", "split", "adventure"}

\* C29: a card that reaches the transform branch has two faces, and the
\* branch reads its front and back face without a crash.
C29_TransformHasTwoFaces ==
    [][(IterStep /\ InTransformBranch(resp'))
        => /\ resp'.primary.NumFaces = 2
           /\ zone' # "panic"]_vars

\* The files directly inside the target among the first n entries, in the
\* order of the walk.
RECURSIVE DirectFiles(_, _)
DirectFiles(t, n) ==
    IF n = 0 THEN <<>>
    ELSE IF t[n] = "file" THEN Append(DirectFiles(t, n - 1), n)
    ELSE DirectFiles(t, n - 1)

\* C30: a path is collected only during the walk, before any file is
\* handled, and only if it is a file directly inside the target; when the
\* walk ends the collected paths are exactly those files, in the order of
\* the walk; files are handled only after the walk, one by one in collected
\* order; a generated file is never among the collected ones; a failure of
\* handleTarget ends the processing, and the program is done only when every
\* collected file was handled.
C30_DirectoryMode ==
    [][/\ files' # files
          => /\ cpc = "walk"
             /\ handled = <<>>
             /\ wi \in 1..Len(tree)
             /\ tree[wi] = "file"
             /\ files' = Append(files, wi)
       /\ (cpc = "walk" /\ cpc' = "handle")
          => files = DirectFiles(tree, Len(tree))
       /\ handled' # handled
          => /\ cpc = "handle"
             /\ files' = files
             /\ Len(handled) < Len(files)
             /\ handled' = Append(handled, files[Len(handled) + 1])
       /\ \A k \in 1..Len(made') : \A j \in 1..Len(files') : files'[j] # made'[k]
       /\ cpc = "fatal" => handled' = handled /\ cpc' = "fatal"
       /\ cpc' = "done" => handled' = files']_vars

\* C30 witness: the target held a directory with a file in it and a file of
\* its own; the one file was collected and handled, the file generated into
\* the target was not, and the program is done.
C30_Witness ==
    /\ cpc = "done"
    /\ outputInTarget
    /\ tree = <<"dir", "inner", "file", "file">>
    /\ files = <<3>>
    /\ handled = <<3>>
    /\ made = <<4>>

====
